---- MODULE Spec2Model ----
(***************************************************************************)
(* Model of the kokushi-app study application.                             *)
(*                                                                         *)
(*   Progress Tracker  src/src/store/useProgressStore.ts  (useProgressStore)*)
(*   Identifier Parser src/unnamed/part_001  (parseQuestionId,             *)
(*                     parsePartialQuestionId)                             *)
(*   Filter Engine     src/unnamed/part_001  (filterQuestions, isHisshu)   *)
(*   Search history    src/src/store/useSearchHistoryStore.ts              *)
(*   Filter state      src/unnamed/part_004  (useStore)                    *)
(*   Collections       src/unnamed/part_005  (useFolderStore),             *)
(*                     useFavoritesStore, useFlashcardStore,               *)
(*                     useCustomTabsStore                                  *)
(*   Answer views      src/unnamed/part_007  (QuestionDetail),             *)
(*                     src/src/components/HomeScreen.tsx  (StudyMode)      *)
(*                                                                         *)
(* Strings are sequences of one-character strings, so that trim, split,    *)
(* toLowerCase, the regular expressions and parseInt are computed and not  *)
(* assumed.  Calendar dates (YYYY-MM-DD strings in the code) are day       *)
(* numbers; the code only compares them for equality.                      *)
(***************************************************************************)
EXTENDS Integers, Sequences, FiniteSets, TLC

VARIABLES
    today,      \* the calendar day getToday() returns
    progress,   \* the state of useProgressStore
    storage,    \* the blob persist() keeps under 'kokushi-progress'
    calls,      \* the last two store calls, latest first, with their arguments
    query,      \* the arguments of the last filterQuestions call
    result,     \* the list that call returned
    history,    \* useSearchHistoryStore: history
    filter,     \* useStore: filter
    filteredQuestions,  \* useStore: filteredQuestions
    folders,    \* useFolderStore: folders
    favoriteIds,    \* useFavoritesStore: favoriteIds
    cardIds,    \* useFlashcardStore: cardIds
    tabs,       \* useCustomTabsStore: tabs
    now,        \* the millisecond Date.now() returns
    detail,     \* QuestionDetail: the question shown and the component's state
    study,      \* StudyMode: the question shown and the component's state
    lastCall    \* the last call made on one of these stores and views

progressVars == <<today, progress, storage, calls>>
filterVars == <<query, result>>
historyVars == <<history>>
storeVars == <<filter, filteredQuestions>>
collectionVars == <<folders, favoriteIds, cardIds, tabs, now>>
viewVars == <<detail, study>>
uiVars == <<historyVars, storeVars, collectionVars, viewVars, lastCall>>

vars == <<progressVars, filterVars, uiVars>>

(***************************************************************************)
(* Bounds of the model.                                                    *)
(***************************************************************************)
MaxDay == 4         \* calendar days the clock runs through
MaxAnswers == 3     \* recordAnswer calls in one behaviour
MaxStreak == 2      \* cap on currentStreak
MaxLen == 3         \* longest search text enumerated over Alphabet
MaxClock == 2       \* milliseconds the clock of Date.now() runs through
MaxFolders == 2     \* folders created in one behaviour
MaxTabs == 1        \* custom tabs held at once

(***************************************************************************)
(* Generic helpers.                                                        *)
(***************************************************************************)
Max(a, b) == IF a >= b THEN a ELSE b

Range(s) == {s[i] : i \in 1..Len(s)}

Includes(s, x) == \E i \in 1..Len(s) : s[i] = x

RECURSIVE FilterReversed(_, _)
\* a filter that collects the kept elements last first
FilterReversed(s, keep) ==
    IF s = <<>> THEN <<>>
    ELSE LET rest == FilterReversed(Tail(s), {i - 1 : i \in keep \ {1}})
         IN IF 1 \in keep THEN rest \o <<Head(s)>> ELSE rest

RECURSIVE Filter(_, _)
\* Array.prototype.filter, Test a set of the kept elements' positions
Filter(s, keep) ==
    IF s = <<>> THEN <<>>
    ELSE LET rest == Filter(Tail(s), {i - 1 : i \in keep \ {1}})
         IN IF 1 \in keep THEN <<Head(s)>> \o rest ELSE rest

\* new Set(iterable): insertion order, the first occurrence of each element
NewSet(s) == Filter(s, {i \in 1..Len(s) : \A j \in 1..(i - 1) : s[j] # s[i]})

(***************************************************************************)
(* Progress Tracker: useProgressStore.                                     *)
(***************************************************************************)
NullDate == -1      \* lastStudyDate: null

QuestionIds == {"118A1", "112B48"}

Goals == {0, 10}

InitialState ==
    [ currentStreak     |-> 0,
      lastStudyDate     |-> NullDate,
      longestStreak     |-> 0,
      todayAnswered     |-> 0,
      todayCorrect      |-> 0,
      dailyGoal         |-> 20,
      totalAnswered     |-> 0,
      totalCorrect      |-> 0,
      answeredQuestions |-> [kind |-> "Set", items |-> <<>>] ]

getToday == today

getYesterday == today - 1

\* partialize: the Set is flattened to an array
partialize(state) ==
    [state EXCEPT !.answeredQuestions = [kind |-> "Array", items |-> @.items]]

\* JSON.stringify followed by JSON.parse: numbers, null and arrays of strings
\* survive; a Set has no enumerable properties and comes back as {}
JSONRoundTrip(value) ==
    [value EXCEPT !.answeredQuestions =
        IF @.kind = "Array" THEN @ ELSE [kind |-> "Object", items |-> <<>>]]

\* { ...a, ...b }
ObjectSpread(a, b) ==
    [f \in DOMAIN a \cup DOMAIN b |-> IF f \in DOMAIN b THEN b[f] ELSE a[f]]

\* the answeredQuestions value of a parsed blob is [kind, items]: "Array" (its
\* elements), "String" (its characters), "Object" ({}, what a Set stringifies
\* to), "Null" or "Undefined" (the property is absent)
\* new Set(x) throws a TypeError for a value that is not iterable
newSetThrows(persisted) ==
    persisted.present /\ persisted.state.answeredQuestions.kind = "Object"

\* new Set(persisted?.answeredQuestions || []): null, undefined and "" give
\* the empty set, an array its elements, a string its characters
persistedSet(persisted) ==
    [kind |-> "Set",
     items |-> IF persisted.present /\ persisted.state.answeredQuestions.kind \in {"Array", "String"}
               THEN NewSet(persisted.state.answeredQuestions.items) ELSE <<>>]

\* merge with the spread order swapped: current overrides persisted
mergeCurrentWins(persisted, current) ==
    [(IF persisted.present THEN ObjectSpread(persisted.state, current) ELSE current)
        EXCEPT !.answeredQuestions = persistedSet(persisted)]

\* merge: persisted is [present, state]; present = FALSE is undefined
merge(persisted, current) ==
    [(IF persisted.present THEN ObjectSpread(current, persisted.state) ELSE current)
        EXCEPT !.answeredQuestions = persistedSet(persisted)]

\* what persist() writes after a set()
setItem(state) == [present |-> TRUE, state |-> JSONRoundTrip(partialize(state))]

NoItem == [present |-> FALSE, state |-> InitialState]

\* checkAndUpdateStreak taking a study date of today as one of yesterday
checkAndUpdateStreakCountsToday(state) ==
    IF state.lastStudyDate = getToday \/ state.lastStudyDate = getYesterday
    THEN LET newStreak == state.currentStreak + 1
         IN [state EXCEPT !.currentStreak = newStreak,
                          !.longestStreak = Max(state.longestStreak, newStreak)]
    ELSE IF state.lastStudyDate = NullDate
         THEN [state EXCEPT !.currentStreak = 1,
                            !.longestStreak = Max(state.longestStreak, 1)]
    ELSE [state EXCEPT !.currentStreak = 1]

\* checkAndUpdateStreak on a given store state
checkAndUpdateStreak(state) ==
    IF state.lastStudyDate = getToday THEN state
    ELSE IF state.lastStudyDate = getYesterday
         THEN LET newStreak == state.currentStreak + 1
              IN [state EXCEPT !.currentStreak = newStreak,
                               !.longestStreak = Max(state.longestStreak, newStreak)]
    ELSE IF state.lastStudyDate = NullDate
         THEN [state EXCEPT !.currentStreak = 1,
                            !.longestStreak = Max(state.longestStreak, 1)]
    ELSE [state EXCEPT !.currentStreak = 1]

\* the set() of recordAnswer with the id pushed onto a plain list
recordAnswerSetNoSet(prev, questionId, isCorrect) ==
    LET isNewDay == prev.lastStudyDate # getToday
    IN [prev EXCEPT
          !.todayAnswered = IF isNewDay THEN 1 ELSE prev.todayAnswered + 1,
          !.todayCorrect = IF isNewDay THEN (IF isCorrect THEN 1 ELSE 0)
                           ELSE prev.todayCorrect + (IF isCorrect THEN 1 ELSE 0),
          !.totalAnswered = prev.totalAnswered + 1,
          !.totalCorrect = prev.totalCorrect + (IF isCorrect THEN 1 ELSE 0),
          !.lastStudyDate = getToday,
          !.answeredQuestions =
              [kind |-> "Set", items |-> Append(prev.answeredQuestions.items, questionId)]]

\* the set() of recordAnswer without the reset on a new day
recordAnswerSetNoReset(prev, questionId, isCorrect) ==
    LET isNewDay == prev.lastStudyDate # getToday
    IN [prev EXCEPT
          !.todayAnswered = prev.todayAnswered + 1,
          !.todayCorrect = prev.todayCorrect + (IF isCorrect THEN 1 ELSE 0),
          !.totalAnswered = prev.totalAnswered + 1,
          !.totalCorrect = prev.totalCorrect + (IF isCorrect THEN 1 ELSE 0),
          !.lastStudyDate = getToday,
          !.answeredQuestions =
              [kind |-> "Set", items |-> NewSet(Append(prev.answeredQuestions.items, questionId))]]

\* the set() of recordAnswer counting every answer as correct in the total
recordAnswerSetCorrectAlways(prev, questionId, isCorrect) ==
    LET isNewDay == prev.lastStudyDate # getToday
    IN [prev EXCEPT
          !.todayAnswered = IF isNewDay THEN 1 ELSE prev.todayAnswered + 1,
          !.todayCorrect = IF isNewDay THEN (IF isCorrect THEN 1 ELSE 0)
                           ELSE prev.todayCorrect + (IF isCorrect THEN 1 ELSE 0),
          !.totalAnswered = prev.totalAnswered + 1,
          !.totalCorrect = prev.totalCorrect + 1,
          !.lastStudyDate = getToday,
          !.answeredQuestions =
              [kind |-> "Set", items |-> NewSet(Append(prev.answeredQuestions.items, questionId))]]

\* the set() of recordAnswer resetting todayAnswered only on a new day
recordAnswerSetStaleCorrect(prev, questionId, isCorrect) ==
    LET isNewDay == prev.lastStudyDate # getToday
    IN [prev EXCEPT
          !.todayAnswered = IF isNewDay THEN 1 ELSE prev.todayAnswered + 1,
          !.todayCorrect = prev.todayCorrect + (IF isCorrect THEN 1 ELSE 0),
          !.totalAnswered = prev.totalAnswered + 1,
          !.totalCorrect = prev.totalCorrect + (IF isCorrect THEN 1 ELSE 0),
          !.lastStudyDate = getToday,
          !.answeredQuestions =
              [kind |-> "Set", items |-> NewSet(Append(prev.answeredQuestions.items, questionId))]]

\* the set() of recordAnswer, lines 64-73
recordAnswerSet(prev, questionId, isCorrect) ==
    LET isNewDay == prev.lastStudyDate # getToday
    IN [prev EXCEPT
          !.todayAnswered = IF isNewDay THEN 1 ELSE prev.todayAnswered + 1,
          !.todayCorrect = IF isNewDay THEN (IF isCorrect THEN 1 ELSE 0)
                           ELSE prev.todayCorrect + (IF isCorrect THEN 1 ELSE 0),
          !.totalAnswered = prev.totalAnswered + 1,
          !.totalCorrect = prev.totalCorrect + (IF isCorrect THEN 1 ELSE 0),
          !.lastStudyDate = getToday,
          !.answeredQuestions =
              [kind |-> "Set", items |-> NewSet(Append(prev.answeredQuestions.items, questionId))]]

\* todayAnswered as it counts for the current day
EffectiveToday(state) ==
    IF state.lastStudyDate = today THEN state.todayAnswered ELSE 0

\* a call as the log keeps it: for recordAnswer, before and sizeBefore are the
\* day's count of answers and the number of answered ids when it was called
NoCall == [op |-> "none", id |-> "", isCorrect |-> FALSE, day |-> 0,
           before |-> 0, sizeBefore |-> 0]

Log(c) == <<c, calls[1]>>

Called(op) ==
    Log([NoCall EXCEPT !.op = op])

\* what a recordAnswer call does to the store, its blob and the log
recordAnswer(questionId, isCorrect) ==
    /\ progress' = checkAndUpdateStreak(recordAnswerSet(progress, questionId, isCorrect))
    /\ storage' = setItem(progress')
    /\ calls' = Log([op |-> "recordAnswer", id |-> questionId, isCorrect |-> isCorrect,
                     day |-> today, before |-> EffectiveToday(progress),
                     sizeBefore |-> Len(progress.answeredQuestions.items)])

RecordAnswer(questionId, isCorrect) ==
    /\ progress.totalAnswered < MaxAnswers
    /\ recordAnswer(questionId, isCorrect)
    /\ UNCHANGED <<today, query, result, uiVars>>

SetDailyGoal(goal) ==
    /\ progress' = [progress EXCEPT !.dailyGoal = goal]
    /\ storage' = setItem(progress')
    /\ calls' = Called("setDailyGoal")
    /\ UNCHANGED <<today, query, result, uiVars>>

CheckAndUpdateStreak ==
    /\ progress.currentStreak < MaxStreak
    /\ progress' = checkAndUpdateStreak(progress)
    /\ storage' = IF progress.lastStudyDate = getToday THEN storage ELSE setItem(progress')
    /\ calls' = Log([NoCall EXCEPT !.op = "checkAndUpdateStreak", !.day = today])
    /\ UNCHANGED <<today, query, result, uiVars>>

\* the application starts again: the store is created and hydrated
\* a merge that throws is caught by the hydration: the store keeps the state
\* it was created with and nothing is written
Rehydrate ==
    /\ progress' = IF newSetThrows(storage) THEN InitialState
                   ELSE merge(storage, InitialState)
    /\ storage' = IF newSetThrows(storage) THEN storage ELSE setItem(progress')
    /\ calls' = Called("rehydrate")
    /\ UNCHANGED <<today, query, result, uiVars>>

\* midnight passes
NextDay ==
    /\ today < MaxDay
    /\ today' = today + 1
    /\ UNCHANGED <<progress, storage, calls, query, result, uiVars>>

(***************************************************************************)
(* Text: a string is a sequence of characters, a character a one-letter    *)
(* string ("TAB" and "U+3000" stand for the tab and the full-width space). *)
(***************************************************************************)
Digits == <<"0", "1", "2", "3", "4", "5", "6", "7", "8", "9">>

Lowers == <<"a", "b", "c", "d", "e", "f", "g", "h", "i", "j", "k", "l", "m",
            "n", "o", "p", "q", "r", "s", "t", "u", "v", "w", "x", "y", "z">>

Uppers == <<"A", "B", "C", "D", "E", "F", "G", "H", "I", "J", "K", "L", "M",
            "N", "O", "P", "Q", "R", "S", "T", "U", "V", "W", "X", "Y", "Z">>

\* \d
IsDigit(c) == Includes(Digits, c)

\* \s, which is also what trim() strips
IsSpace(c) == c \in {" ", "TAB", "U+3000"}

\* [\s\-_]
IsSeparator(c) == IsSpace(c) \/ c \in {"-", "_"}

\* [a-dA-D] with upper-case letters only
IsSessionLetterUpperOnly(c) == c \in {"A", "B", "C", "D"}

\* [a-dA-D]
IsSessionLetter(c) == c \in {"a", "b", "c", "d", "A", "B", "C", "D"}

charToLowerCase(c) ==
    IF Includes(Uppers, c) THEN Lowers[CHOOSE i \in 1..Len(Uppers) : Uppers[i] = c] ELSE c

charToUpperCase(c) ==
    IF Includes(Lowers, c) THEN Uppers[CHOOSE i \in 1..Len(Lowers) : Lowers[i] = c] ELSE c

\* String.prototype.toLowerCase
toLowerCase(s) == [i \in 1..Len(s) |-> charToLowerCase(s[i])]

\* String.prototype.trim
trim(s) ==
    LET kept == {i \in 1..Len(s) : ~IsSpace(s[i])}
    IN IF kept = {} THEN <<>>
       ELSE SubSeq(s, CHOOSE i \in kept : \A j \in kept : i <= j,
                      CHOOSE i \in kept : \A j \in kept : i >= j)

RECURSIVE parseInt(_)
\* parseInt of a string of decimal digits
parseInt(ds) ==
    IF ds = <<>> THEN 0
    ELSE parseInt(SubSeq(ds, 1, Len(ds) - 1)) * 10
         + ((CHOOSE i \in 1..Len(Digits) : Digits[i] = ds[Len(ds)]) - 1)

RECURSIVE DigitRun(_, _)
\* the number of digits \d* consumes from position i
DigitRun(s, i) ==
    IF i <= Len(s) /\ IsDigit(s[i]) THEN 1 + DigitRun(s, i + 1) ELSE 0

RECURSIVE SeparatorRun(_, _)
\* the number of characters [\s\-_]* consumes from position i
SeparatorRun(s, i) ==
    IF i <= Len(s) /\ IsSeparator(s[i]) THEN 1 + SeparatorRun(s, i + 1) ELSE 0

RECURSIVE SpaceRun(_, _)
\* the number of characters [\s　]+ consumes from position i
SpaceRun(s, i) ==
    IF i <= Len(s) /\ IsSpace(s[i]) THEN 1 + SpaceRun(s, i + 1) ELSE 0

RECURSIVE SplitFrom(_, _, _)
\* String.prototype.split(/[\s　]+/) from position i, cur the piece being read
SplitFrom(s, i, cur) ==
    IF i > Len(s) THEN <<cur>>
    ELSE IF IsSpace(s[i]) THEN <<cur>> \o SplitFrom(s, i + SpaceRun(s, i), <<>>)
    ELSE SplitFrom(s, i + 1, Append(cur, s[i]))

split(s) == SplitFrom(s, 1, <<>>)

\* String.prototype.includes
StringIncludes(s, sub) ==
    \E i \in 0..(Len(s) - Len(sub)) : SubSeq(s, i + 1, i + Len(sub)) = sub

(***************************************************************************)
(* Identifier Parser.                                                      *)
(***************************************************************************)
NoQuestionId == [matched |-> FALSE, year |-> 0, session |-> "", number |-> 0]

\* /^(\d{2,3})[\s\-_]*([a-dA-D])[\s\-_]*(\d{1,3})$/ on the trimmed text
parseQuestionId(text) ==
    LET s == trim(text)
        n1 == DigitRun(s, 1)
        pLetter == n1 + 1 + SeparatorRun(s, n1 + 1)
        pNumber == pLetter + 1 + SeparatorRun(s, pLetter + 1)
        n2 == DigitRun(s, pNumber)
    IN IF /\ n1 \in 2..3
          /\ pLetter <= Len(s)
          /\ IsSessionLetter(s[pLetter])
          /\ n2 \in 1..3
          /\ pNumber + n2 - 1 = Len(s)
       THEN [matched |-> TRUE,
             year |-> parseInt(SubSeq(s, 1, n1)),
             session |-> charToUpperCase(s[pLetter]),
             number |-> parseInt(SubSeq(s, pNumber, Len(s)))]
       ELSE NoQuestionId

NoPartial == [matched |-> FALSE, years |-> <<>>, session |-> ""]

\* year >= 102 && year <= 118 without the upper end
inDataRangeNoUpper(year) == year >= 102

\* year >= 102 && year <= 118, the range of the data
inDataRange(year) == year >= 102 /\ year <= 118

\* the loop of pattern 3: the years prefix*10 + 0..9 that lie in the data range
prefixYears(prefix) ==
    LET candidates == [i \in 1..10 |-> prefix * 10 + (i - 1)]
    IN Filter(candidates, {i \in 1..10 : inDataRange(candidates[i])})

\* year >= 100 && year <= 130 without the lower end
inIdentifierRangeNoLower(year) == year <= 130

\* year >= 100 && year <= 130, the test of patterns 1 and 2
inIdentifierRange(year) == year >= 100 /\ year <= 130

\* a parsePartialQuestionId that accepts nothing
parsePartialQuestionIdNever(text) == NoPartial

parsePartialQuestionId(text) ==
    LET trimmed == trim(text)
        n1 == DigitRun(trimmed, 1)
        pLetter == n1 + 1 + SeparatorRun(trimmed, n1 + 1)
        \* /^(\d{2,3})[\s\-_]*([a-dA-D])[\s\-_]*$/i
        matchWithSession ==
            /\ n1 \in 2..3
            /\ pLetter <= Len(trimmed)
            /\ IsSessionLetter(trimmed[pLetter])
            /\ pLetter + SeparatorRun(trimmed, pLetter + 1) = Len(trimmed)
        \* /^(\d{3})$/
        matchYearFull == n1 = 3 /\ Len(trimmed) = 3
        \* /^(\d{2})$/
        matchYearPartial == n1 = 2 /\ Len(trimmed) = 2
        year == parseInt(SubSeq(trimmed, 1, n1))
        prefix == year
    IN IF matchWithSession /\ inIdentifierRange(year)
       THEN [matched |-> TRUE, years |-> <<year>>,
             session |-> charToUpperCase(trimmed[pLetter])]
       ELSE IF matchYearFull /\ inIdentifierRange(year)
       THEN [matched |-> TRUE, years |-> <<year>>, session |-> ""]
       ELSE IF matchYearPartial /\ prefix >= 10 /\ prefix <= 13 /\ Len(prefixYears(prefix)) > 0
       THEN [matched |-> TRUE, years |-> prefixYears(prefix), session |-> ""]
       ELSE NoPartial

(***************************************************************************)
(* Filter Engine.                                                          *)
(***************************************************************************)
isHisshu(year, session, number) ==
    IF year = 102
    THEN (session = "A" \/ session = "B") /\ number >= 1 /\ number <= 25
    ELSE IF year >= 103 /\ year <= 110
    THEN (session = "A" \/ session = "B") /\ number >= 1 /\ number <= 35
    ELSE IF year >= 111 /\ year <= 113
    THEN (session = "A" \/ session = "B") /\ number >= 1 /\ number <= 40
    ELSE IF year >= 114
    THEN session \in {"A", "B", "C", "D"} /\ number >= 1 /\ number <= 20
    ELSE FALSE

\* the complete-identifier test without the session
matchesParsedNoSession(q, parsed) ==
    q.year = parsed.year /\ q.number = parsed.number

\* the test of the complete-identifier branch
matchesParsed(q, parsed) ==
    LET yearMatch == q.year = parsed.year
        sessionMatch == q.session = parsed.session
        numberMatch == q.number = parsed.number
    IN yearMatch /\ sessionMatch /\ numberMatch

\* the exact-id test without toLowerCase
matchesExactIdCaseSensitive(q, trimmedSearch) == q.id = trimmedSearch

\* the test of the exact-id branch
matchesExactId(q, trimmedSearch) == toLowerCase(q.id) = toLowerCase(trimmedSearch)

\* the partial-identifier test without the session
matchesPartialNoSession(q, partialParsed) == Includes(partialParsed.years, q.year)

\* the test of the partial-identifier branch
matchesPartial(q, partialParsed) ==
    LET yearMatch == Includes(partialParsed.years, q.year)
        sessionMatch == IF partialParsed.session # "" THEN q.session = partialParsed.session
                        ELSE TRUE
    IN yearMatch /\ sessionMatch

\* one keyword: in the question text or in some choice
keywordMatches(q, keyword) ==
    LET lowerKeyword == toLowerCase(keyword)
        inQuestion == StringIncludes(toLowerCase(q.questionText), lowerKeyword)
        inChoices == \E i \in 1..Len(q.choices) :
                        StringIncludes(toLowerCase(q.choices[i]), lowerKeyword)
    IN inQuestion \/ inChoices

\* keywords.some in place of keywords.every
matchesAllKeywordsSome(q, trimmedSearch) ==
    LET pieces == split(trimmedSearch)
        keywords == Filter(pieces, {i \in 1..Len(pieces) : Len(pieces[i]) > 0})
    IN \E i \in 1..Len(keywords) : keywordMatches(q, keywords[i])

\* matchesAll of the text search
matchesAllKeywords(q, trimmedSearch) ==
    LET pieces == split(trimmedSearch)
        keywords == Filter(pieces, {i \in 1..Len(pieces) : Len(pieces[i]) > 0})
    IN \A i \in 1..Len(keywords) : keywordMatches(q, keywords[i])

\* the hisshu filter dropped
passesHisshuFilterOff(q, hisshuOnly) == TRUE

passesHisshuFilter(q, hisshuOnly) ==
    ~(hisshuOnly /\ ~isHisshu(q.year, q.session, q.number))

\* the year filter without the length test: an empty selection matches nothing
passesYearFilterNoLength(q, selectedYears) == Includes(selectedYears, q.year)

passesYearFilter(q, selectedYears) ==
    ~(Len(selectedYears) > 0 /\ ~Includes(selectedYears, q.year))

passesSessionFilter(q, sessions) ==
    ~(Len(sessions) > 0 /\ ~Includes(sessions, q.session))

\* the test of the general filter
matchesGeneral(q, trimmedSearch, selectedYears, sessions, hisshuOnly) ==
    IF ~passesHisshuFilter(q, hisshuOnly) THEN FALSE
    ELSE IF ~passesYearFilter(q, selectedYears) THEN FALSE
    ELSE IF ~passesSessionFilter(q, sessions) THEN FALSE
    ELSE IF trimmedSearch # <<>> /\ ~matchesAllKeywords(q, trimmedSearch) THEN FALSE
    ELSE TRUE

filterQuestions(questions, searchText, selectedYears, sessions, hisshuOnly) ==
    LET trimmedSearch == trim(searchText)
        parsed == parseQuestionId(trimmedSearch)
        exactMatch == Filter(questions, {i \in 1..Len(questions) :
                                            matchesExactId(questions[i], trimmedSearch)})
        partialParsed == parsePartialQuestionId(trimmedSearch)
    IN IF parsed.matched
       THEN Filter(questions, {i \in 1..Len(questions) : matchesParsed(questions[i], parsed)})
       ELSE IF trimmedSearch # <<>> /\ Len(exactMatch) > 0
       THEN exactMatch
       ELSE IF partialParsed.matched
       THEN Filter(questions,
                   {i \in 1..Len(questions) : matchesPartial(questions[i], partialParsed)})
       ELSE Filter(questions,
                   {i \in 1..Len(questions) :
                       matchesGeneral(questions[i], trimmedSearch, selectedYears,
                                      sessions, hisshuOnly)})

\* the questions handed to filterQuestions, in the order of the data file
\* (by year, session, number).  id is any string of the data: 118E1 and 119A
\* are ids that parseQuestionId does not accept, 119A is a partial identifier
AllQuestions == <<
    [id |-> <<"1", "0", "1", "B", "1">>, year |-> 101, session |-> "B", number |-> 1,
     questionText |-> <<"x", "b">>,
     choices |-> <<<<"y">>, <<"x">>>>],
    [id |-> <<"1", "0", "2", "B", "1">>, year |-> 102, session |-> "B", number |-> 1,
     questionText |-> <<"b", "x", " ", "1", "0">>,
     choices |-> <<<<"y">>>>],
    [id |-> <<"1", "0", "9", "A", "3", "6">>, year |-> 109, session |-> "A", number |-> 36,
     questionText |-> <<"1", "1", "b">>,
     choices |-> <<<<"0", "-", "1">>, <<"Y">>>>],
    [id |-> <<"1", "1", "0", "A", "1">>, year |-> 110, session |-> "A", number |-> 1,
     questionText |-> <<"x", "b", " ", "y">>,
     choices |-> <<<<"x", "1">>, <<"B", "0">>>>],
    [id |-> <<"1", "1", "0", "B", "1">>, year |-> 110, session |-> "B", number |-> 1,
     questionText |-> <<"y">>,
     choices |-> <<<<"x", "B">>>>],
    [id |-> <<"1", "1", "2", "B", "4", "8">>, year |-> 112, session |-> "B", number |-> 48,
     questionText |-> <<"x", " ", "y">>,
     choices |-> <<<<"b">>, <<"y", "y">>>>],
    [id |-> <<"1", "1", "8", "C", "2", "0">>, year |-> 118, session |-> "C", number |-> 20,
     questionText |-> <<"x", " ", "1", "2">>,
     choices |-> <<<<"y">>, <<"0">>>>],
    [id |-> <<"1", "1", "8", "E", "1">>, year |-> 118, session |-> "E", number |-> 1,
     questionText |-> <<"y", " ", "b">>,
     choices |-> <<<<"x">>>>],
    [id |-> <<"1", "1", "9", "A">>, year |-> 119, session |-> "A", number |-> 0,
     questionText |-> <<"x">>,
     choices |-> <<<<"b">>>>],
    [id |-> <<"1", "1", "9", "A", "1">>, year |-> 119, session |-> "A", number |-> 1,
     questionText |-> <<"b">>,
     choices |-> <<<<"B">>, <<"x", " ", "b">>>>] >>

\* the characters search texts are enumerated over, up to MaxLen characters
Alphabet == {"1", "0", "B", "b", "x", "-", " "}

\* longer search texts: identifiers in their separator styles, fragments,
\* years around the accepted ranges, keywords
ExtraTexts == {
    <<"1", "1", "8", "e", "1">>,
    <<"1", "1", "9", "A">>,
    <<"1", "1", "0", "b">>,
    <<"1", "1", "0", "-", "a">>,
    <<"1", "1", "0">>,
    <<"1", "0", "9", "-", "A", "-", "3", "6">>,
    <<"1", "1", "2", "-", "B", "-", "4", "8">>,
    <<"1", "1", "2", "B", "4", "8">>,
    <<"1", "1", "2", " ", "B", " ", "4", "8">>,
    <<"1", "1", "2", "b", "4", "8">>,
    <<" ", "1", "1", "2", "_", "b", "_", "4", "8", " ">>,
    <<"1", "1", "0", "a", "0", "0", "1">>,
    <<"1", "1", "0", " ", " ", "-", "A", "-", " ", "1">>,
    <<"1", "1", "2", "B">>,
    <<"1", "1", "2", "-", "b", "-">>,
    <<"1", "1", "2">>,
    <<"1", "1", "8">>,
    <<"1", "1", "9">>,
    <<"B", "4", "8">>,
    <<"1", "1", "2", "B", "1", "2", "3", "4">>,
    <<"1", "1", "0", "2", "B", "1">>,
    <<"1", "1", "2", "E", "4", "8">>,
    <<"1", "1", "2", "B", "4", "8", "x">>,
    <<"1", "2">>,
    <<"1", "3">>,
    <<"0", "9">>,
    <<"1", "4">>,
    <<"9", "9">>,
    <<"1", "3", "1">>,
    <<"0", "9", "9">>,
    <<"1", "3", "0">>,
    <<"9", "9", "B">>,
    <<"1", "3", "1", "A">>,
    <<"1", "1", "9", "a">>,
    <<"x", "U+3000", "b">>,
    <<"X", "TAB", "y">>,
    <<"x", " ", "b", " ", "y">>,
    <<"b", " ", " ", "x">>,
    <<"U+3000">>,
    <<" ", "1", "1", " ">>,
    <<"1", "1", "U+3000">>,
    <<"b", "x", " ", "1", "0">>,
    <<"0", "-", "1", " ", "Y">> }

SearchTexts == UNION {[1..n -> Alphabet] : n \in 0..MaxLen} \cup ExtraTexts

YearSelections == {<<>>, <<118, 102>>}

SessionSelections == {<<>>, <<"B", "C">>}

NoQuery == [searchText |-> <<>>, selectedYears |-> <<>>, sessions |-> <<>>,
            hisshuOnly |-> FALSE, called |-> FALSE]

(***************************************************************************)
(* Calls on the other stores and on the views: lastCall is the last one,   *)
(* with its arguments; tick alternates so that two equal calls in a row    *)
(* are two steps.                                                          *)
(***************************************************************************)
NoUiCall == [op |-> "none", args |-> <<>>, tick |-> 0]

UiCalled(op, args) == [op |-> op, args |-> args, tick |-> 1 - lastCall.tick]

\* a step that is a call of op
UiCall(op) == lastCall'.tick # lastCall.tick /\ lastCall'.op = op

(***************************************************************************)
(* Search history: useSearchHistoryStore.                                  *)
(***************************************************************************)
MAX_HISTORY == 20

\* Array.prototype.slice(0, end)
slice(s, end) == SubSeq(s, 1, IF Len(s) < end THEN Len(s) ELSE end)

\* Array.prototype.filter(h => h !== x)
without(s, x) == Filter(s, {i \in 1..Len(s) : s[i] # x})

\* addSearch keeping the earlier occurrence of the keyword
addSearchKeepsEarlier(prevHistory, keyword) ==
    IF trim(keyword) = <<>> THEN prevHistory
    ELSE slice(<<keyword>> \o prevHistory, MAX_HISTORY)

\* the history addSearch leaves
addSearch(prevHistory, keyword) ==
    IF trim(keyword) = <<>> THEN prevHistory
    ELSE LET filtered == without(prevHistory, keyword)
             newHistory == slice(<<keyword>> \o filtered, MAX_HISTORY)
         IN newHistory

\* keywords: blank ones, the first and the last of a full history, new ones
HistoryKeywords ==
    {<<>>, <<" ">>, <<"a">>, <<"t">>, <<"u">>, <<"v">>, <<" ", "a">>}

\* the history after the searches t, s, ..., b, a (n of them), newest first
Searched(n) == [i \in 1..n |-> <<Lowers[i]>>]

AddSearch(keyword) ==
    /\ history' = addSearch(history, keyword)
    /\ lastCall' = UiCalled("addSearch", keyword)
    /\ UNCHANGED <<progressVars, filterVars, storeVars, collectionVars, viewVars>>

RemoveSearch(keyword) ==
    /\ history' = without(history, keyword)
    /\ lastCall' = UiCalled("removeSearch", keyword)
    /\ UNCHANGED <<progressVars, filterVars, storeVars, collectionVars, viewVars>>

ClearAllHistory ==
    /\ history' = <<>>
    /\ lastCall' = UiCalled("clearAll", <<>>)
    /\ UNCHANGED <<progressVars, filterVars, storeVars, collectionVars, viewVars>>

(***************************************************************************)
(* Filter state: useStore.                                                 *)
(***************************************************************************)
\* getYearRange: meta.yearRange of the data file, the least and the greatest
\* year of its questions
minYear ==
    CHOOSE y \in {AllQuestions[i].year : i \in 1..Len(AllQuestions)} :
        \A i \in 1..Len(AllQuestions) : y <= AllQuestions[i].year

maxYear ==
    CHOOSE y \in {AllQuestions[i].year : i \in 1..Len(AllQuestions)} :
        \A i \in 1..Len(AllQuestions) : y >= AllQuestions[i].year

\* a sort that leaves the array as it is
sortNone(s) == s

RECURSIVE sortDescending(_)
\* Array.prototype.sort((a, b) => b - a): stable, greatest first
sortDescending(s) ==
    IF s = <<>> THEN <<>>
    ELSE LET rest == sortDescending(SubSeq(s, 1, Len(s) - 1))
             x == s[Len(s)]
             before == {i \in 1..Len(rest) : rest[i] >= x}
         IN Filter(rest, before) \o <<x>> \o Filter(rest, (1..Len(rest)) \ before)

\* years of selectAllYears: maxYear down to minYear
allYears == [i \in 1..(maxYear - minYear + 1) |-> maxYear + 1 - i]

\* an applyFilter that leaves the list as it is
applyFilterStale(f) == filteredQuestions

\* the list applyFilter stores for the filter f
applyFilter(f) ==
    filterQuestions(AllQuestions, f.searchText, f.selectedYears, f.sessions, FALSE)

StoreTexts == {<<>>, <<"x">>, <<"1", "1", "0">>, <<"1", "1", "2", "B", "4", "8">>}

StoreYears == {102, 110, 118}

StoreSessions == {"A", "B"}

SetSearchText(text) ==
    /\ filter' = [filter EXCEPT !.searchText = text]
    /\ filteredQuestions' = applyFilter(filter')
    /\ lastCall' = UiCalled("setSearchText", text)
    /\ UNCHANGED <<progressVars, filterVars, historyVars, collectionVars, viewVars>>

\* the log keeps the list before the call and whether the call repeats the
\* call before it
ToggleYear(year) ==
    /\ LET current == filter.selectedYears
           newYears == IF Includes(current, year) THEN without(current, year)
                       ELSE sortDescending(Append(current, year))
       IN filter' = [filter EXCEPT !.selectedYears = newYears]
    /\ filteredQuestions' = applyFilter(filter')
    /\ lastCall' = UiCalled("toggleYear",
                            [year |-> year, before |-> filter.selectedYears,
                             again |-> lastCall.op = "toggleYear"
                                           /\ lastCall.args.year = year])
    /\ UNCHANGED <<progressVars, filterVars, historyVars, collectionVars, viewVars>>

SelectAllYears ==
    /\ filter' = [filter EXCEPT !.selectedYears = allYears]
    /\ filteredQuestions' = applyFilter(filter')
    /\ lastCall' = UiCalled("selectAllYears", <<>>)
    /\ UNCHANGED <<progressVars, filterVars, historyVars, collectionVars, viewVars>>

ClearAllYears ==
    /\ filter' = [filter EXCEPT !.selectedYears = <<>>]
    /\ filteredQuestions' = applyFilter(filter')
    /\ lastCall' = UiCalled("clearAllYears", <<>>)
    /\ UNCHANGED <<progressVars, filterVars, historyVars, collectionVars, viewVars>>

ToggleSession(session) ==
    /\ LET current == filter.sessions
           newSessions == IF Includes(current, session) THEN without(current, session)
                          ELSE Append(current, session)
       IN filter' = [filter EXCEPT !.sessions = newSessions]
    /\ filteredQuestions' = applyFilter(filter')
    /\ lastCall' = UiCalled("toggleSession", session)
    /\ UNCHANGED <<progressVars, filterVars, historyVars, collectionVars, viewVars>>

(***************************************************************************)
(* Collections: useFolderStore, useFavoritesStore, useFlashcardStore,      *)
(* useCustomTabsStore.  An id is a tuple: <<"bookmark">>, <<"folder-", t>>  *)
(* and <<"custom_", t>> for the template strings with Date.now() = t.      *)
(***************************************************************************)
defaultFolders ==
    << [id |-> <<"bookmark">>, name |-> "Bookmark", color |-> "#3B82F6",
        questionIds |-> <<>>, createdAt |-> 0] >>

\* the folders createFolder leaves; its return value is the id
createFolder(prevFolders, name, color) ==
    LET id == <<"folder-", now>>
    IN Append(prevFolders,
              [id |-> id, name |-> name, color |-> color,
               questionIds |-> <<>>, createdAt |-> now])

deleteFolder(prevFolders, folderId) ==
    Filter(prevFolders, {i \in 1..Len(prevFolders) : prevFolders[i].id # folderId})

renameFolder(prevFolders, folderId, name) ==
    [i \in 1..Len(prevFolders) |->
        IF prevFolders[i].id = folderId THEN [prevFolders[i] EXCEPT !.name = name]
        ELSE prevFolders[i]]

\* addToFolder without the includes test
addToFolderAlways(prevFolders, folderId, questionId) ==
    [i \in 1..Len(prevFolders) |->
        IF prevFolders[i].id # folderId THEN prevFolders[i]
        ELSE [prevFolders[i] EXCEPT !.questionIds = Append(@, questionId)]]

addToFolder(prevFolders, folderId, questionId) ==
    [i \in 1..Len(prevFolders) |->
        IF prevFolders[i].id # folderId THEN prevFolders[i]
        ELSE IF Includes(prevFolders[i].questionIds, questionId) THEN prevFolders[i]
        ELSE [prevFolders[i] EXCEPT !.questionIds = Append(@, questionId)]]

removeFromFolder(prevFolders, folderId, questionId) ==
    [i \in 1..Len(prevFolders) |->
        IF prevFolders[i].id = folderId
        THEN [prevFolders[i] EXCEPT !.questionIds = without(@, questionId)]
        ELSE prevFolders[i]]

\* a delete button on every folder tab
canDeleteAny(folder) == TRUE

\* the folder tabs show the delete button when !isBookmark
canDelete(folder) ==
    LET isBookmark == folder.id = <<"bookmark">>
    IN ~isBookmark

FolderNames == {"n"}

\* folder ids handed to the store: those of the folders and one of no folder
FolderIds == {folders[i].id : i \in 1..Len(folders)} \cup {<<"folder-", 0>>}

CreateFolder(name) ==
    /\ Len(folders) <= MaxFolders
    /\ folders' = createFolder(folders, name, "#3B82F6")
    /\ lastCall' = UiCalled("createFolder", <<>>)
    /\ UNCHANGED <<progressVars, filterVars, historyVars, storeVars, viewVars,
                   favoriteIds, cardIds, tabs, now>>

\* the delete button of the tab of folders[i]
DeleteFolder(i) ==
    /\ i <= Len(folders)
    /\ canDelete(folders[i])
    /\ folders' = deleteFolder(folders, folders[i].id)
    /\ lastCall' = UiCalled("deleteFolder", <<>>)
    /\ UNCHANGED <<progressVars, filterVars, historyVars, storeVars, viewVars,
                   favoriteIds, cardIds, tabs, now>>

RenameFolder(folderId, name) ==
    /\ folders' = renameFolder(folders, folderId, name)
    /\ lastCall' = UiCalled("renameFolder", <<>>)
    /\ UNCHANGED <<progressVars, filterVars, historyVars, storeVars, viewVars,
                   favoriteIds, cardIds, tabs, now>>

AddToFolder(folderId, questionId) ==
    /\ folders' = addToFolder(folders, folderId, questionId)
    /\ lastCall' = UiCalled("addToFolder",
                            [folderId |-> folderId, id |-> questionId,
                             had |-> \E i \in 1..Len(folders) :
                                        /\ folders[i].id = folderId
                                        /\ Includes(folders[i].questionIds, questionId)])
    /\ UNCHANGED <<progressVars, filterVars, historyVars, storeVars, viewVars,
                   favoriteIds, cardIds, tabs, now>>

RemoveFromFolder(folderId, questionId) ==
    /\ folders' = removeFromFolder(folders, folderId, questionId)
    /\ lastCall' = UiCalled("removeFromFolder", <<>>)
    /\ UNCHANGED <<progressVars, filterVars, historyVars, storeVars, viewVars,
                   favoriteIds, cardIds, tabs, now>>

\* useCustomTabsStore
addTab(prevTabs, tab) ==
    Append(prevTabs, [name |-> tab.name, subjectIds |-> tab.subjectIds,
                      color |-> tab.color, id |-> <<"custom_", now>>,
                      createdAt |-> now])

removeTab(prevTabs, id) ==
    Filter(prevTabs, {i \in 1..Len(prevTabs) : prevTabs[i].id # id})

NewTabs == {[name |-> "t", subjectIds |-> <<>>, color |-> "#3B82F6"]}

AddTab(tab) ==
    /\ Len(tabs) <= MaxTabs
    /\ tabs' = addTab(tabs, tab)
    /\ lastCall' = UiCalled("addTab", <<>>)
    /\ UNCHANGED <<progressVars, filterVars, historyVars, storeVars, viewVars,
                   folders, favoriteIds, cardIds, now>>

RemoveTab(i) ==
    /\ i <= Len(tabs)
    /\ tabs' = removeTab(tabs, tabs[i].id)
    /\ lastCall' = UiCalled("removeTab", <<>>)
    /\ UNCHANGED <<progressVars, filterVars, historyVars, storeVars, viewVars,
                   folders, favoriteIds, cardIds, now>>

\* a millisecond passes
Tick ==
    /\ now < MaxClock
    /\ now' = now + 1
    /\ UNCHANGED <<progressVars, filterVars, historyVars, storeVars, viewVars,
                   folders, favoriteIds, cardIds, tabs, lastCall>>

\* useFavoritesStore
addFavorite(prevIds, id) ==
    IF Includes(prevIds, id) THEN prevIds ELSE Append(prevIds, id)

removeFavorite(prevIds, id) == without(prevIds, id)

toggleFavorite(prevIds, id) ==
    IF Includes(prevIds, id) THEN without(prevIds, id) ELSE Append(prevIds, id)

AddFavorite(id) ==
    /\ favoriteIds' = addFavorite(favoriteIds, id)
    /\ lastCall' = UiCalled("addFavorite", [id |-> id, had |-> Includes(favoriteIds, id)])
    /\ UNCHANGED <<progressVars, filterVars, historyVars, storeVars, viewVars,
                   folders, cardIds, tabs, now>>

RemoveFavorite(id) ==
    /\ favoriteIds' = removeFavorite(favoriteIds, id)
    /\ lastCall' = UiCalled("removeFavorite", <<>>)
    /\ UNCHANGED <<progressVars, filterVars, historyVars, storeVars, viewVars,
                   folders, cardIds, tabs, now>>

ToggleFavorite(id) ==
    /\ favoriteIds' = toggleFavorite(favoriteIds, id)
    /\ lastCall' = UiCalled("toggleFavorite", <<>>)
    /\ UNCHANGED <<progressVars, filterVars, historyVars, storeVars, viewVars,
                   folders, cardIds, tabs, now>>

ClearAllFavorites ==
    /\ favoriteIds' = <<>>
    /\ lastCall' = UiCalled("clearAllFavorites", <<>>)
    /\ UNCHANGED <<progressVars, filterVars, historyVars, storeVars, viewVars,
                   folders, cardIds, tabs, now>>

\* useFlashcardStore
addCard(prevIds, id) ==
    IF Includes(prevIds, id) THEN prevIds ELSE Append(prevIds, id)

removeCard(prevIds, id) == without(prevIds, id)

AddCard(id) ==
    /\ cardIds' = addCard(cardIds, id)
    /\ lastCall' = UiCalled("addCard", [id |-> id, had |-> Includes(cardIds, id)])
    /\ UNCHANGED <<progressVars, filterVars, historyVars, storeVars, viewVars,
                   folders, favoriteIds, tabs, now>>

RemoveCard(id) ==
    /\ cardIds' = removeCard(cardIds, id)
    /\ lastCall' = UiCalled("removeCard", <<>>)
    /\ UNCHANGED <<progressVars, filterVars, historyVars, storeVars, viewVars,
                   folders, favoriteIds, tabs, now>>

ClearAllCards ==
    /\ cardIds' = <<>>
    /\ lastCall' = UiCalled("clearAllCards", <<>>)
    /\ UNCHANGED <<progressVars, filterVars, historyVars, storeVars, viewVars,
                   folders, favoriteIds, tabs, now>>

(***************************************************************************)
(* Answer views: QuestionDetail (part_007) and StudyMode (HomeScreen.tsx). *)
(* One of the two is on screen.  A choice key is a one-letter string, a    *)
(* set of selected keys a set.                                             *)
(***************************************************************************)
\* questions as the views read them: a single choice, two choices with the
\* answer in upper case, a calculation, an excluded question without answer
ViewQuestions == <<
    [id |-> "118A1", answer |-> <<"a">>, keys |-> {"a", "b"}, choiceCount |-> 1],
    [id |-> "112B48", answer |-> <<"C", "A">>, keys |-> {"a", "b", "c"}, choiceCount |-> 2],
    [id |-> "110C3", answer |-> <<"1", ".", "5">>, keys |-> {"a", "b"}, choiceCount |-> 1],
    [id |-> "109D9", answer |-> <<>>, keys |-> {"a", "e"}, choiceCount |-> 1] >>

ChoiceKeys == {"a", "b", "c", "e"}

\* /[a-e]/
IsChoiceLetter(c) == c \in {"a", "b", "c", "d", "e"}

\* the judgement without the comparison of the lengths
isCorrectEvery(answer, selectedChoices) ==
    LET lower == toLowerCase(answer)
        correctAnswers == Filter(lower, {i \in 1..Len(lower) : IsChoiceLetter(lower[i])})
    IN \A i \in 1..Len(correctAnswers) : correctAnswers[i] \in selectedChoices

\* isCorrect of handleSubmitAnswer and correct of handleSubmit
isCorrectAnswer(answer, selectedChoices) ==
    LET lower == toLowerCase(answer)
        correctAnswers == Filter(lower, {i \in 1..Len(lower) : IsChoiceLetter(lower[i])})
        selectedArrayLength == Cardinality(selectedChoices)
    IN /\ Len(correctAnswers) = selectedArrayLength
       /\ \A i \in 1..Len(correctAnswers) : correctAnswers[i] \in selectedChoices

\* the setSelectedChoices of handleChoiceClick
clickChoice(selectedChoices, key, choiceCount) ==
    IF key \in selectedChoices THEN selectedChoices \ {key}
    ELSE IF choiceCount = 1 THEN {key}
    ELSE selectedChoices \cup {key}

\* the effect of QuestionDetail on [question.id, answeredQuestions]
detailEffect(view, answeredQuestions) ==
    [view EXCEPT !.selectedChoices = {},
                 !.hasAnswered = Includes(answeredQuestions.items,
                                          ViewQuestions[view.question].id)]

DetailUnmounted ==
    [mounted |-> FALSE, question |-> 1, selectedChoices |-> {},
     hasAnswered |-> FALSE, showAnswer |-> FALSE]

StudyUnmounted ==
    [mounted |-> FALSE, questions |-> <<>>, currentIndex |-> 1,
     selectedChoices |-> {}, isAnswered |-> FALSE, isCorrect |-> FALSE]

\* useStore.selectQuestion: the detail view shows another question
SelectQuestion(q) ==
    /\ detail.mounted
    /\ detail' = detailEffect([detail EXCEPT !.question = q, !.showAnswer = FALSE],
                              progress.answeredQuestions)
    /\ UNCHANGED <<progressVars, filterVars, historyVars, storeVars, collectionVars,
                   study, lastCall>>

\* useStore.toggleAnswer
ToggleAnswer ==
    /\ detail.mounted
    /\ detail' = [detail EXCEPT !.showAnswer = ~@]
    /\ UNCHANGED <<progressVars, filterVars, historyVars, storeVars, collectionVars,
                   study, lastCall>>

DetailChoiceClick(key) ==
    /\ detail.mounted
    /\ key \in ViewQuestions[detail.question].keys
    /\ detail' = IF detail.hasAnswered \/ detail.showAnswer THEN detail
                 ELSE [detail EXCEPT !.selectedChoices =
                          clickChoice(@, key, ViewQuestions[detail.question].choiceCount)]
    /\ UNCHANGED <<progressVars, filterVars, historyVars, storeVars, collectionVars,
                   study, lastCall>>

\* handleSubmitAnswer; the log keeps the question, the selection and
\* hasAnswered as the handler found them
HandleSubmitAnswer ==
    /\ detail.mounted
    /\ lastCall' = UiCalled("handleSubmitAnswer",
                            [question |-> detail.question,
                             selected |-> detail.selectedChoices,
                             answered |-> detail.hasAnswered])
    /\ IF detail.selectedChoices = {} \/ detail.hasAnswered
       THEN UNCHANGED <<progress, storage, calls, detail>>
       ELSE LET question == ViewQuestions[detail.question]
                isCorrect == isCorrectAnswer(question.answer, detail.selectedChoices)
            IN /\ recordAnswer(question.id, isCorrect)
               /\ detail' = detailEffect([detail EXCEPT !.hasAnswered = TRUE,
                                                         !.showAnswer = ~@],
                                         progress'.answeredQuestions)
    /\ UNCHANGED <<today, filterVars, historyVars, storeVars, collectionVars, study>>

StudyChoiceClick(key) ==
    /\ study.mounted
    /\ study.currentIndex <= Len(study.questions)
    /\ key \in ViewQuestions[study.questions[study.currentIndex]].keys
    /\ study' = IF study.isAnswered THEN study
                ELSE [study EXCEPT !.selectedChoices =
                        clickChoice(@, key,
                            ViewQuestions[study.questions[study.currentIndex]].choiceCount)]
    /\ UNCHANGED <<progressVars, filterVars, historyVars, storeVars, collectionVars,
                   detail, lastCall>>

\* handleSubmit of StudyMode
HandleSubmit ==
    /\ study.mounted
    /\ LET noQuestion == study.currentIndex > Len(study.questions)
       IN /\ lastCall' = UiCalled("handleSubmit",
                            [question |-> IF noQuestion THEN 0
                                          ELSE study.questions[study.currentIndex],
                             selected |-> study.selectedChoices,
                             answered |-> study.isAnswered])
          /\ IF study.selectedChoices = {} \/ study.isAnswered \/ noQuestion
             THEN UNCHANGED <<progress, storage, calls, study>>
             ELSE LET currentQuestion == ViewQuestions[study.questions[study.currentIndex]]
                      correct == isCorrectAnswer(currentQuestion.answer,
                                                 study.selectedChoices)
                  IN /\ recordAnswer(currentQuestion.id, correct)
                     /\ study' = [study EXCEPT !.isCorrect = correct, !.isAnswered = TRUE]
    /\ UNCHANGED <<today, filterVars, historyVars, storeVars, collectionVars, detail>>

GoToNext ==
    /\ study.mounted
    /\ study.currentIndex <= Len(study.questions)
    /\ study' = [study EXCEPT !.selectedChoices = {}, !.isAnswered = FALSE,
                              !.isCorrect = FALSE, !.currentIndex = @ + 1]
    /\ UNCHANGED <<progressVars, filterVars, historyVars, storeVars, collectionVars,
                   detail, lastCall>>

(***************************************************************************)
(* Start states of the stores and specifications.                          *)
(***************************************************************************)
ProgressStart ==
    /\ today = 1
    /\ progress = InitialState
    /\ storage = NoItem
    /\ calls = <<NoCall, NoCall>>

FilterStart ==
    /\ query = NoQuery
    /\ result = <<>>

HistoryStart == history = <<>>

StoreStart ==
    /\ filter = [searchText |-> <<>>, selectedYears |-> <<>>, sessions |-> <<>>]
    /\ filteredQuestions = AllQuestions

CollectionStart ==
    /\ folders = defaultFolders
    /\ favoriteIds = <<>>
    /\ cardIds = <<>>
    /\ tabs = <<>>
    /\ now = 1

ViewStart ==
    /\ detail = DetailUnmounted
    /\ study = StudyUnmounted

UiStart ==
    /\ HistoryStart /\ StoreStart /\ CollectionStart /\ ViewStart
    /\ lastCall = NoUiCall

Init ==
    /\ today = 1
    /\ progress = InitialState
    /\ storage = NoItem
    /\ calls = <<NoCall, NoCall>>
    /\ query = NoQuery
    /\ result = <<>>
    /\ UiStart

Next ==
    \/ \E questionId \in QuestionIds, isCorrect \in BOOLEAN : RecordAnswer(questionId, isCorrect)
    \/ \E goal \in Goals : SetDailyGoal(goal)
    \/ CheckAndUpdateStreak
    \/ Rehydrate
    \/ NextDay

Spec == Init /\ [][Next]_vars

\* blobs found under 'kokushi-progress' that this version of the store did not
\* write: any scalar fields, answeredQuestions of any JSON type
BlobStates ==
    [ currentStreak     : {0, 2},
      lastStudyDate     : {NullDate, 1},
      longestStreak     : {0, 2},
      todayAnswered     : {0, 1},
      todayCorrect      : {0},
      dailyGoal         : {20, 10},
      totalAnswered     : {0, 3},
      totalCorrect      : {0},
      answeredQuestions : {[kind |-> "Undefined", items |-> <<>>],
                           [kind |-> "Null", items |-> <<>>],
                           [kind |-> "Object", items |-> <<>>],
                           [kind |-> "String", items |-> <<>>],
                           [kind |-> "String", items |-> <<"x", "x">>],
                           [kind |-> "Array", items |-> <<"118A1", "118A1">>]} ]

Blobs == {NoItem} \cup [present : {TRUE}, state : BlobStates]

\* the application starts with some blob in the storage
HydrateInit ==
    /\ today = 1
    /\ progress = InitialState
    /\ storage \in Blobs
    /\ calls = <<NoCall, NoCall>>
    /\ query = NoQuery
    /\ result = <<>>
    /\ UiStart

HydrateNext == Rehydrate

HydrateSpec == HydrateInit /\ [][HydrateNext]_vars

\* a history of 0, 19 or 20 searches, then any addSearch, removeSearch, clearAll
HistoryInit ==
    /\ ProgressStart /\ FilterStart
    /\ StoreStart /\ CollectionStart /\ ViewStart
    /\ history \in {Searched(n) : n \in {0, MAX_HISTORY - 1, MAX_HISTORY}}
    /\ lastCall = NoUiCall

HistoryNext ==
    \/ \E keyword \in HistoryKeywords : AddSearch(keyword)
    \/ \E keyword \in HistoryKeywords : RemoveSearch(keyword)
    \/ ClearAllHistory

HistorySpec == HistoryInit /\ [][HistoryNext]_vars

StoreInit ==
    /\ ProgressStart /\ FilterStart
    /\ UiStart

StoreNext ==
    \/ \E text \in StoreTexts : SetSearchText(text)
    \/ \E year \in StoreYears : ToggleYear(year)
    \/ SelectAllYears
    \/ ClearAllYears
    \/ \E session \in StoreSessions : ToggleSession(session)

StoreSpec == StoreInit /\ [][StoreNext]_vars

\* the folder and custom tab stores, with the clock their ids are taken from
FolderInit ==
    /\ ProgressStart /\ FilterStart
    /\ UiStart

FolderNext ==
    \/ \E name \in FolderNames : CreateFolder(name)
    \/ \E i \in 1..(MaxFolders + 1) : DeleteFolder(i)
    \/ \E folderId \in FolderIds, name \in FolderNames : RenameFolder(folderId, name)
    \/ \E folderId \in FolderIds : AddToFolder(folderId, "118A1")
    \/ \E folderId \in FolderIds : RemoveFromFolder(folderId, "118A1")
    \/ \E tab \in NewTabs : AddTab(tab)
    \/ \E i \in 1..(MaxTabs + 1) : RemoveTab(i)
    \/ Tick

FolderSpec == FolderInit /\ [][FolderNext]_vars

\* the id lists of the collection stores; the folders are the default one, or
\* with it two folders created in one millisecond
CollectionInit ==
    /\ ProgressStart /\ FilterStart
    /\ HistoryStart /\ StoreStart /\ ViewStart
    /\ now = 1
    /\ folders \in {defaultFolders,
                    createFolder(createFolder(defaultFolders, "n", "#3B82F6"),
                                 "n", "#3B82F6")}
    /\ favoriteIds = <<>>
    /\ cardIds = <<>>
    /\ tabs = <<>>
    /\ lastCall = NoUiCall

CollectionNext ==
    \/ \E folderId \in FolderIds, id \in QuestionIds : AddToFolder(folderId, id)
    \/ \E folderId \in FolderIds, id \in QuestionIds : RemoveFromFolder(folderId, id)
    \/ \E id \in QuestionIds : AddFavorite(id)
    \/ \E id \in QuestionIds : RemoveFavorite(id)
    \/ \E id \in QuestionIds : ToggleFavorite(id)
    \/ ClearAllFavorites
    \/ \E id \in QuestionIds : AddCard(id)
    \/ \E id \in QuestionIds : RemoveCard(id)
    \/ ClearAllCards

CollectionSpec == CollectionInit /\ [][CollectionNext]_vars

\* the orders the shuffle of StudyMode leaves the questions in
StudyOrders == {<<1, 2, 3, 4>>, <<2, 4, 1, 3>>}

\* the detail view on some question, or the study mode on its first question
ViewInit ==
    /\ ProgressStart /\ FilterStart
    /\ HistoryStart /\ StoreStart /\ CollectionStart
    /\ \/ /\ detail \in {[DetailUnmounted EXCEPT !.mounted = TRUE, !.question = q] :
                             q \in 1..Len(ViewQuestions)}
          /\ study = StudyUnmounted
       \/ /\ detail = DetailUnmounted
          /\ study \in {[StudyUnmounted EXCEPT !.mounted = TRUE, !.questions = order] :
                            order \in StudyOrders}
    /\ lastCall = NoUiCall

ViewNext ==
    \/ \E q \in 1..Len(ViewQuestions) : SelectQuestion(q)
    \/ ToggleAnswer
    \/ \E key \in ChoiceKeys : DetailChoiceClick(key)
    \/ HandleSubmitAnswer
    \/ \E key \in ChoiceKeys : StudyChoiceClick(key)
    \/ HandleSubmit
    \/ GoToNext

ViewSpec == ViewInit /\ [][ViewNext]_vars

\* a filterQuestions call is about to be made with arguments drawn from the
\* input sets
FilterInit ==
    /\ today = 1
    /\ progress = InitialState
    /\ storage = NoItem
    /\ calls = <<NoCall, NoCall>>
    /\ query \in [searchText : SearchTexts, selectedYears : YearSelections,
                  sessions : SessionSelections, hisshuOnly : BOOLEAN, called : {FALSE}]
    /\ result = <<>>
    /\ UiStart

FilterQuestions ==
    /\ ~query.called
    /\ query' = [query EXCEPT !.called = TRUE]
    /\ result' = filterQuestions(AllQuestions, query.searchText, query.selectedYears,
                                 query.sessions, query.hisshuOnly)
    /\ UNCHANGED <<progressVars, uiVars>>

FilterNext == FilterQuestions

FilterSpec == FilterInit /\ [][FilterNext]_vars

(***************************************************************************)
(* Progress Tracker: properties.                                           *)
(***************************************************************************)
\* a step that is a recordAnswer call
RecordAnswerStep == progress'.totalAnswered = progress.totalAnswered + 1

\* C1: from the initial state the first recordAnswer sets currentStreak = 1
\* and longestStreak = 1; the first recordAnswer of the next day sets both to
\* 2; after a skipped day recordAnswer sets currentStreak = 1 and leaves
\* longestStreak = 2.
C1_StreakScenario ==
    [][RecordAnswerStep =>
         /\ (progress.lastStudyDate = NullDate /\ progress.currentStreak = 0
                /\ progress.longestStreak = 0)
              => (progress'.currentStreak = 1 /\ progress'.longestStreak = 1)
         /\ (progress.lastStudyDate = today - 1 /\ progress.currentStreak = 1
                /\ progress.longestStreak = 1)
              => (progress'.currentStreak = 2 /\ progress'.longestStreak = 2)
         /\ (progress.lastStudyDate # NullDate /\ progress.lastStudyDate < today - 1
                /\ progress.currentStreak = 2 /\ progress.longestStreak = 2)
              => (progress'.currentStreak = 1 /\ progress'.longestStreak = 2)]_vars

\* C2: longestStreak >= currentStreak in every reachable state.
C2_LongestAtLeastCurrent == progress.longestStreak >= progress.currentStreak

\* the last two calls were recordAnswer(id, true) for one id on one day
SameIdTwice ==
    /\ calls[1].op = "recordAnswer" /\ calls[2].op = "recordAnswer"
    /\ calls[1].id = calls[2].id
    /\ calls[1].isCorrect /\ calls[2].isCorrect
    /\ calls[1].day = calls[2].day

\* C7: after recordAnswer(id, true) twice for one id on one day the day's
\* count of answers is 2 more than before the first call, id is in
\* answeredQuestions exactly once, and the second call did not change the
\* number of answered ids.
C7_SameIdTwiceSameDay ==
    SameIdTwice =>
        LET items == progress.answeredQuestions.items
        IN /\ progress.todayAnswered = calls[2].before + 2
           /\ Cardinality({i \in 1..Len(items) : items[i] = calls[1].id}) = 1
           /\ Len(items) = calls[1].sizeBefore
           /\ Cardinality(Range(items)) = Len(items)

C7_Witness ==
    /\ SameIdTwice
    /\ calls[2].before = 1
    /\ progress.todayAnswered = 3
    /\ Len(progress.answeredQuestions.items) = 2

ScalarFields ==
    {"currentStreak", "longestStreak", "lastStudyDate", "todayAnswered",
     "todayCorrect", "dailyGoal", "totalAnswered", "totalCorrect"}

\* C8: partialize, serialization and merge give back the same set of answered
\* ids and the same scalar fields, in every reachable state.
C8_RoundTrip ==
    LET stored == setItem(progress)
        back == merge(stored, InitialState)
    IN /\ stored.state.answeredQuestions.kind = "Array"
       /\ back.answeredQuestions.kind = "Set"
       /\ Range(back.answeredQuestions.items) = Range(progress.answeredQuestions.items)
       /\ Len(back.answeredQuestions.items) = Len(progress.answeredQuestions.items)
       /\ \A f \in ScalarFields : back[f] = progress[f]

\* the store was hydrated from a blob that differs from the initial state in
\* every field
C8_Witness ==
    /\ calls[1].op = "rehydrate"
    /\ storage.present
    /\ Len(progress.answeredQuestions.items) = 2
    /\ \A f \in ScalarFields : progress[f] # InitialState[f]


(***************************************************************************)
(* Identifier Parser and Filter Engine: properties.  The grammar and the   *)
(* filter rules are stated here as the specification words them, apart     *)
(* from the operators above.                                               *)
(***************************************************************************)
DigitOf(c) ==
    CASE c = "0" -> 0 [] c = "1" -> 1 [] c = "2" -> 2 [] c = "3" -> 3 [] c = "4" -> 4
      [] c = "5" -> 5 [] c = "6" -> 6 [] c = "7" -> 7 [] c = "8" -> 8 [] c = "9" -> 9

DigitChars == {"0", "1", "2", "3", "4", "5", "6", "7", "8", "9"}

SeparatorChars == {" ", "TAB", "U+3000", "-", "_"}

SessionOf(c) ==
    CASE c \in {"a", "A"} -> "A" [] c \in {"b", "B"} -> "B"
      [] c \in {"c", "C"} -> "C" [] c \in {"d", "D"} -> "D"

\* the integer the n digits of s from position from write, n in 1..3
NumberOf(s, from, n) ==
    IF n = 1 THEN DigitOf(s[from])
    ELSE IF n = 2 THEN 10 * DigitOf(s[from]) + DigitOf(s[from + 1])
    ELSE 100 * DigitOf(s[from]) + 10 * DigitOf(s[from + 1]) + DigitOf(s[from + 2])

\* s is n1 digits, k1 separators, a letter a-d, k2 separators, n2 digits
IsCompleteForm(s, n1, k1, k2, n2) ==
    /\ Len(s) = n1 + k1 + 1 + k2 + n2
    /\ \A i \in 1..n1 : s[i] \in DigitChars
    /\ \A i \in (n1 + 1)..(n1 + k1) : s[i] \in SeparatorChars
    /\ s[n1 + k1 + 1] \in {"a", "b", "c", "d", "A", "B", "C", "D"}
    /\ \A i \in (n1 + k1 + 2)..(n1 + k1 + 1 + k2) : s[i] \in SeparatorChars
    /\ \A i \in (n1 + k1 + k2 + 2)..Len(s) : s[i] \in DigitChars

CompleteForms(s) ==
    {f \in (2..3) \X (0..Len(s)) \X (0..Len(s)) \X (1..3) :
        IsCompleteForm(s, f[1], f[2], f[3], f[4])}

\* the identifier a form of s names
IdentifierOf(s, f) ==
    [year |-> NumberOf(s, 1, f[1]),
     session |-> SessionOf(s[f[1] + f[2] + 1]),
     number |-> NumberOf(s, f[1] + f[2] + f[3] + 2, f[4])]

Trimmed == trim(query.searchText)

\* the maximal runs of non-whitespace characters of s
KeywordsOf(s) ==
    {SubSeq(s, i, j) : <<i, j>> \in
        {p \in (1..Len(s)) \X (1..Len(s)) :
            /\ p[1] <= p[2]
            /\ \A m \in p[1]..p[2] : s[m] \notin {" ", "TAB", "U+3000"}
            /\ (p[1] = 1 \/ s[p[1] - 1] \in {" ", "TAB", "U+3000"})
            /\ (p[2] = Len(s) \/ s[p[2] + 1] \in {" ", "TAB", "U+3000"})}}

\* k occurs in field, letter case aside
OccursIn(k, field) ==
    \E off \in 0..(Len(field) - Len(k)) :
        \A m \in 1..Len(k) : charToLowerCase(field[off + m]) = charToLowerCase(k[m])

\* k occurs in the question text or in a choice text of q
KeywordHit(q, k) ==
    OccursIn(k, q.questionText) \/ \E c \in Range(q.choices) : OccursIn(k, c)

NoIdEquals(s) == \A i \in 1..Len(AllQuestions) : toLowerCase(AllQuestions[i].id) # toLowerCase(s)

\* no identifier branch applies to the search text
GeneralBranch ==
    /\ ~parseQuestionId(Trimmed).matched
    /\ NoIdEquals(Trimmed)
    /\ ~parsePartialQuestionId(Trimmed).matched

\* the four conditions of the general filter
PassesGeneral(q) ==
    /\ query.hisshuOnly => isHisshu(q.year, q.session, q.number)
    /\ query.selectedYears # <<>> => q.year \in Range(query.selectedYears)
    /\ query.sessions # <<>> => q.session \in Range(query.sessions)
    /\ Trimmed # <<>> => \A k \in KeywordsOf(Trimmed) : KeywordHit(q, k)

\* C3: a search text that is a complete identifier returns exactly the
\* questions with that year, session and number, whatever selectedYears,
\* sessions and hisshuOnly are.
C3_CompleteIdentifierPrecedence ==
    (query.called /\ CompleteForms(Trimmed) # {}) =>
        LET id == IdentifierOf(Trimmed, CHOOSE f \in CompleteForms(Trimmed) : TRUE)
            Same(q) == q.year = id.year /\ q.session = id.session /\ q.number = id.number
        IN /\ result = SelectSeq(AllQuestions, Same)
           /\ \A ys \in YearSelections, ss \in SessionSelections, h \in BOOLEAN :
                 filterQuestions(AllQuestions, query.searchText, ys, ss, h) = result

\* 109-A-36 with every restriction set against it
C3_Witness ==
    /\ query.called
    /\ query.searchText = <<"1", "0", "9", "-", "A", "-", "3", "6">>
    /\ query.selectedYears = <<118, 102>>
    /\ query.sessions = <<"B", "C">>
    /\ query.hisshuOnly
    /\ Len(result) = 1
    /\ result[1].year = 109 /\ result[1].session = "A" /\ result[1].number = 36

\* C4: parseQuestionId matches iff the trimmed text is 2-3 digits, separators,
\* a letter a-d in either case, separators, 1-3 digits; on a match year and
\* number are the values of the digit groups and session the upper-cased
\* letter.
C4_ParseComplete ==
    LET parsed == parseQuestionId(query.searchText)
    IN /\ parsed.matched <=> CompleteForms(Trimmed) # {}
       /\ \A f \in CompleteForms(Trimmed) :
             /\ parsed.year = IdentifierOf(Trimmed, f).year
             /\ parsed.session = IdentifierOf(Trimmed, f).session
             /\ parsed.number = IdentifierOf(Trimmed, f).number

\* " 112_b_48 ": surrounding blanks, separators, a lower-case letter
C4_Witness ==
    /\ query.called
    /\ query.searchText = <<" ", "1", "1", "2", "_", "b", "_", "4", "8", " ">>
    /\ parseQuestionId(query.searchText)
         = [matched |-> TRUE, year |-> 112, session |-> "B", number |-> 48]
    /\ ~parseQuestionId(<<"1", "1", "2", "B">>).matched
    /\ ~parseQuestionId(<<"1", "1", "2">>).matched
    /\ ~parseQuestionId(<<"B", "4", "8">>).matched

\* the years a two-digit prefix stands for
PrefixYearSet(prefix) == {y \in (prefix * 10)..(prefix * 10 + 9) : y >= 102 /\ y <= 118}

IsTwoDigits(s) == Len(s) = 2 /\ s[1] \in DigitChars /\ s[2] \in DigitChars

\* C5: a two-digit search text that is no question id returns exactly the
\* questions of the years prefix*10 .. prefix*10+9 within [102,118]; when
\* there is no such year the partial parser reports no match and the general
\* filter handles the text.
C5_TwoDigitPrefix ==
    (query.called /\ IsTwoDigits(Trimmed) /\ NoIdEquals(Trimmed)) =>
        LET years == PrefixYearSet(NumberOf(Trimmed, 1, 2))
            InYears(q) == q.year \in years
        IN IF years # {}
           THEN result = SelectSeq(AllQuestions, InYears)
           ELSE /\ ~parsePartialQuestionId(Trimmed).matched
                /\ result = SelectSeq(AllQuestions, PassesGeneral)

\* "11" gives the years 110, 110, 112, 118 and 118 of the list and not 119
C5_Witness ==
    /\ query.called
    /\ query.searchText = <<"1", "1">>
    /\ query.selectedYears = <<118, 102>>
    /\ [i \in 1..Len(result) |-> result[i].year] = <<110, 110, 112, 118, 118>>
    /\ \E i \in 1..Len(AllQuestions) : AllQuestions[i].year = 119

\* C6: with several keywords the general filter keeps a question only if
\* every keyword occurs in its question text or in one of its choices.
C6_AllKeywords ==
    (query.called /\ GeneralBranch /\ Cardinality(KeywordsOf(Trimmed)) >= 2) =>
        /\ \A i \in 1..Len(result) : \A k \in KeywordsOf(Trimmed) : KeywordHit(result[i], k)
        /\ \A i \in 1..Len(AllQuestions) :
              (\E k \in KeywordsOf(Trimmed) : ~KeywordHit(AllQuestions[i], k))
                 => AllQuestions[i] \notin Range(result)

\* "x<full-width space>b": 112B48 has x in its text and b in a choice only;
\* 118C20 has x and no b and is left out
C6_Witness ==
    /\ query.called
    /\ query.searchText = <<"x", "U+3000", "b">>
    /\ query.selectedYears = <<>> /\ query.sessions = <<>> /\ ~query.hisshuOnly
    /\ \E i \in 1..Len(result) :
          /\ result[i].id = <<"1", "1", "2", "B", "4", "8">>
          /\ ~OccursIn(<<"b">>, result[i].questionText)
          /\ OccursIn(<<"x">>, result[i].questionText)
    /\ \A i \in 1..Len(result) : result[i].id # <<"1", "1", "8", "C", "2", "0">>

\* C9: when no identifier branch applies, a question is in the result iff the
\* hisshu, year, session and keyword conditions all hold.
C9_GeneralFilter ==
    (query.called /\ GeneralBranch) => result = SelectSeq(AllQuestions, PassesGeneral)

\* every restriction set, keyword b: of the hisshu questions of the selected
\* years and sessions only 102B1 has the keyword
C9_Witness ==
    /\ query.called
    /\ GeneralBranch
    /\ query.searchText = <<"b">>
    /\ query.selectedYears = <<118, 102>>
    /\ query.sessions = <<"B", "C">>
    /\ query.hisshuOnly
    /\ Len(result) = 1
    /\ result[1].id = <<"1", "0", "2", "B", "1">>

\* C10: with no search text, no selected year, no session and hisshuOnly off,
\* every question is returned.
C10_EmptyFilterIsIdentity ==
    (/\ query.called
     /\ Trimmed = <<>>
     /\ query.selectedYears = <<>>
     /\ query.sessions = <<>>
     /\ ~query.hisshuOnly) => result = AllQuestions

\* a search text of blanks only
C10_Witness ==
    /\ query.called
    /\ query.searchText = <<" ", " ">>
    /\ query.selectedYears = <<>>
    /\ query.sessions = <<>>
    /\ ~query.hisshuOnly
    /\ result = AllQuestions
    /\ Len(result) = 10


RECURSIVE IsSubsequence(_, _)
\* r is s with some elements left out
IsSubsequence(r, s) ==
    IF r = <<>> THEN TRUE
    ELSE IF s = <<>> THEN FALSE
    ELSE IF Head(r) = Head(s) THEN IsSubsequence(Tail(r), Tail(s))
    ELSE IsSubsequence(r, Tail(s))

\* C11: in every branch the result is a subsequence of the input list: input
\* questions only, none more often than in the input, in the input's order.
C11_ResultIsSubsequence ==
    query.called =>
        /\ IsSubsequence(result, AllQuestions)
        /\ \A i, j \in 1..Len(result) : i < j => result[i] # result[j]

\* "11": five questions of the list, with others before, between and after
C11_Witness ==
    /\ query.called
    /\ query.searchText = <<"1", "1">>
    /\ Len(result) = 5
    /\ result[1] = AllQuestions[4] /\ result[2] = AllQuestions[5]
    /\ result[3] = AllQuestions[6] /\ result[4] = AllQuestions[7]
    /\ result[5] = AllQuestions[8]

\* s is n1 digits, k1 separators, a letter a-d, k2 separators
IsSessionForm(s, n1, k1, k2) ==
    /\ Len(s) = n1 + k1 + 1 + k2
    /\ \A i \in 1..n1 : s[i] \in DigitChars
    /\ \A i \in (n1 + 1)..(n1 + k1) : s[i] \in SeparatorChars
    /\ s[n1 + k1 + 1] \in {"a", "b", "c", "d", "A", "B", "C", "D"}
    /\ \A i \in (n1 + k1 + 2)..Len(s) : s[i] \in SeparatorChars

SessionForms(s) ==
    {f \in (2..3) \X (0..Len(s)) \X (0..Len(s)) : IsSessionForm(s, f[1], f[2], f[3])}

IsThreeDigits(s) == Len(s) = 3 /\ \A i \in 1..3 : s[i] \in DigitChars

\* the partial identifier the text s writes, as the three sub-patterns of the
\* specification give it
PartialOf(s) ==
    IF SessionForms(s) # {}
    THEN LET f == CHOOSE g \in SessionForms(s) : TRUE
             year == NumberOf(s, 1, f[1])
         IN [ok |-> year \in 100..130, years |-> {year},
             session |-> SessionOf(s[f[1] + f[2] + 1])]
    ELSE IF IsThreeDigits(s)
    THEN [ok |-> NumberOf(s, 1, 3) \in 100..130, years |-> {NumberOf(s, 1, 3)},
          session |-> ""]
    ELSE IF IsTwoDigits(s)
    THEN [ok |-> PrefixYearSet(NumberOf(s, 1, 2)) # {},
          years |-> PrefixYearSet(NumberOf(s, 1, 2)), session |-> ""]
    ELSE [ok |-> FALSE, years |-> {}, session |-> ""]

InPartial(q) ==
    /\ q.year \in PartialOf(Trimmed).years
    /\ PartialOf(Trimmed).session # "" => q.session = PartialOf(Trimmed).session

\* the result is the same whatever selectedYears, sessions and hisshuOnly are
IgnoresRestrictions ==
    \A ys \in YearSelections, ss \in SessionSelections, h \in BOOLEAN :
        filterQuestions(AllQuestions, query.searchText, ys, ss, h) = result

\* C12: when parseQuestionId fails, no id equals the text and
\* parsePartialQuestionId succeeds, the result is exactly the questions of the
\* parsed years and, if a session letter was parsed, of that session,
\* whatever selectedYears, sessions and hisshuOnly are.
C12_PartialIdentifierBranch ==
    /\ parsePartialQuestionId(Trimmed).matched <=> PartialOf(Trimmed).ok
    /\ (/\ query.called
        /\ ~parseQuestionId(Trimmed).matched
        /\ NoIdEquals(Trimmed)
        /\ parsePartialQuestionId(Trimmed).matched)
         => /\ result = SelectSeq(AllQuestions, InPartial)
            /\ IgnoresRestrictions

\* "110-a" with selectedYears and sessions set against 110A1
C12_Witness ==
    /\ query.called
    /\ query.searchText = <<"1", "1", "0", "-", "a">>
    /\ query.selectedYears = <<118, 102>>
    /\ query.sessions = <<"B", "C">>
    /\ Len(result) = 1
    /\ result[1].id = <<"1", "1", "0", "A", "1">>
    /\ \E i \in 1..Len(AllQuestions) :
          AllQuestions[i].year = 110 /\ AllQuestions[i].session = "B"

\* the id of q is the text s, letter case aside
IdEquals(q, s) ==
    /\ Len(q.id) = Len(s)
    /\ \A i \in 1..Len(s) : charToLowerCase(q.id[i]) = charToLowerCase(s[i])

HasTrimmedId(q) == IdEquals(q, Trimmed)

\* C13: when parseQuestionId fails and some id equals the trimmed text, letter
\* case aside, the result is exactly the questions with that id, whatever
\* selectedYears, sessions and hisshuOnly are, also when the text is a
\* partial identifier; when no id equals it the next branches decide.
C13_ExactIdBranch ==
    (query.called /\ CompleteForms(Trimmed) = {}) =>
        IF \E i \in 1..Len(AllQuestions) : IdEquals(AllQuestions[i], Trimmed)
        THEN /\ result = SelectSeq(AllQuestions, HasTrimmedId)
             /\ IgnoresRestrictions
        ELSE IF PartialOf(Trimmed).ok
        THEN result = SelectSeq(AllQuestions, InPartial)
        ELSE result = SelectSeq(AllQuestions, PassesGeneral)

\* "119a" is the id 119A and also a partial identifier that two questions
\* match; the question with the id alone is returned
C13_Witness ==
    /\ query.called
    /\ query.searchText = <<"1", "1", "9", "a">>
    /\ query.selectedYears = <<118, 102>>
    /\ query.sessions = <<"B", "C">>
    /\ query.hisshuOnly
    /\ PartialOf(Trimmed).ok
    /\ Len(SelectSeq(AllQuestions, InPartial)) = 2
    /\ Len(result) = 1
    /\ result[1].id = <<"1", "1", "9", "A">>

\* the text has the form of a partial identifier with a year outside [100,130]
OutOfRangePartialForm(s) ==
    \/ /\ SessionForms(s) # {}
       /\ NumberOf(s, 1, (CHOOSE f \in SessionForms(s) : TRUE)[1]) \notin 100..130
    \/ /\ IsThreeDigits(s)
       /\ NumberOf(s, 1, 3) \notin 100..130

\* C14: a partial-form text whose year is outside [100,130] does not match
\* the partial parser; if no id equals it the result is the general filter's.
C14_OutOfRangeIsNoMatch ==
    OutOfRangePartialForm(Trimmed) =>
        /\ ~parsePartialQuestionId(Trimmed).matched
        /\ (query.called /\ NoIdEquals(Trimmed))
             => result = SelectSeq(AllQuestions, PassesGeneral)

\* "11b": year 11 with session b is no partial identifier; as a keyword it
\* finds 109A36
C14_Witness ==
    /\ query.called
    /\ query.searchText = <<"1", "1", "b">>
    /\ query.selectedYears = <<>> /\ query.sessions = <<>> /\ ~query.hisshuOnly
    /\ OutOfRangePartialForm(Trimmed)
    /\ Len(result) = 1
    /\ result[1].id = <<"1", "0", "9", "A", "3", "6">>
    /\ ~parsePartialQuestionId(<<"1", "3", "1">>).matched
    /\ ~parsePartialQuestionId(<<"0", "9", "9">>).matched
    /\ ~parsePartialQuestionId(<<"9", "9", "B">>).matched
    /\ ~parsePartialQuestionId(<<"1", "3", "1", "A">>).matched


(***************************************************************************)
(* Progress Tracker: further properties.                                   *)
(***************************************************************************)
\* a step that is a recordAnswer call, by the call log
RecordAnswerCall == calls' # calls /\ calls'[1].op = "recordAnswer"

OneIf(b) == IF b THEN 1 ELSE 0

\* C15: a recordAnswer whose prior lastStudyDate is not today sets
\* todayAnswered to 1 and todayCorrect to 1 or 0; one whose prior
\* lastStudyDate is today adds 1 to todayAnswered and, iff correct, to
\* todayCorrect.
C15_DayRollover ==
    [][RecordAnswerCall =>
         IF progress.lastStudyDate # today
         THEN /\ progress'.todayAnswered = 1
              /\ progress'.todayCorrect = OneIf(calls'[1].isCorrect)
         ELSE /\ progress'.todayAnswered = progress.todayAnswered + 1
              /\ progress'.todayCorrect = progress.todayCorrect + OneIf(calls'[1].isCorrect)]_vars

\* two correct answers on one day, then a wrong answer on a later day: the
\* earlier day's counts are gone
C15_Witness ==
    /\ calls[1].op = "recordAnswer" /\ calls[2].op = "recordAnswer"
    /\ calls[2].day < calls[1].day
    /\ calls[2].before = 1 /\ calls[2].isCorrect
    /\ ~calls[1].isCorrect
    /\ progress.todayAnswered = 1 /\ progress.todayCorrect = 0
    /\ progress.totalAnswered = 3 /\ progress.totalCorrect = 2

\* C16: every recordAnswer adds 1 to totalAnswered and, iff correct, to
\* totalCorrect, leaves lastStudyDate at the current date and questionId in
\* answeredQuestions; no step removes an answered id or lowers a total.
C16_TotalsAndAnsweredIds ==
    [][/\ RecordAnswerCall =>
            /\ progress'.totalAnswered = progress.totalAnswered + 1
            /\ progress'.totalCorrect = progress.totalCorrect + OneIf(calls'[1].isCorrect)
            /\ progress'.lastStudyDate = today
            /\ calls'[1].id \in Range(progress'.answeredQuestions.items)
       /\ Range(progress.answeredQuestions.items) \subseteq Range(progress'.answeredQuestions.items)
       /\ progress'.totalAnswered >= progress.totalAnswered
       /\ progress'.totalCorrect >= progress.totalCorrect]_vars

\* a wrong answer as the third answer, on a later day than the second
C16_Witness ==
    /\ calls[1].op = "recordAnswer" /\ ~calls[1].isCorrect
    /\ calls[2].op = "recordAnswer" /\ calls[2].day < calls[1].day
    /\ calls[1].id # calls[2].id
    /\ progress.totalAnswered = 3 /\ progress.totalCorrect = 1
    /\ progress.lastStudyDate = calls[1].day
    /\ Range(progress.answeredQuestions.items) = QuestionIds

\* C17: 0 <= todayCorrect <= todayAnswered and 0 <= totalCorrect <=
\* totalAnswered in every reachable state.
C17_CorrectAtMostAnswered ==
    /\ 0 <= progress.todayCorrect /\ progress.todayCorrect <= progress.todayAnswered
    /\ 0 <= progress.totalCorrect /\ progress.totalCorrect <= progress.totalAnswered

\* both bounds met with equality and with strict inequality: a wrong answer
\* on one day, then two correct answers on a later day
C17_Witness ==
    /\ calls[1].op = "recordAnswer" /\ calls[1].isCorrect
    /\ calls[2].op = "recordAnswer" /\ calls[2].isCorrect
    /\ calls[1].day = calls[2].day /\ calls[2].before = 0
    /\ progress.todayCorrect = 2 /\ progress.todayAnswered = 2
    /\ progress.totalCorrect = 2 /\ progress.totalAnswered = 3

\* C18: a recordAnswer whose prior lastStudyDate is the current date leaves
\* currentStreak and longestStreak unchanged.
C18_SameDayKeepsStreak ==
    [][(RecordAnswerCall /\ progress.lastStudyDate = today) =>
         /\ progress'.currentStreak = progress.currentStreak
         /\ progress'.longestStreak = progress.longestStreak]_vars

\* three answers on one day with a streak of 1
C18_Witness ==
    /\ calls[1].op = "recordAnswer" /\ calls[2].op = "recordAnswer"
    /\ calls[1].day = calls[2].day
    /\ calls[1].before = 2
    /\ progress.todayAnswered = 3
    /\ progress.currentStreak = 1 /\ progress.longestStreak = 1

\* C19: the streak update of recordAnswer goes by the lastStudyDate held
\* before the call: yesterday adds 1 to currentStreak and makes longestStreak
\* the larger of itself and the new currentStreak; null or an older date
\* makes currentStreak 1.
C19_StreakFromPreviousDate ==
    [][RecordAnswerCall =>
         /\ progress.lastStudyDate = today - 1 =>
               /\ progress'.currentStreak = progress.currentStreak + 1
               /\ progress'.longestStreak
                    = Max(progress.longestStreak, progress.currentStreak + 1)
         /\ (progress.lastStudyDate = NullDate \/ progress.lastStudyDate < today - 1) =>
               progress'.currentStreak = 1]_vars

\* C20: dailyGoal is a positive integer in every reachable state.
C20_DailyGoalPositive == progress.dailyGoal \in Nat /\ progress.dailyGoal >= 1

\* a step that is a hydration of the store, by the call log
RehydrateCall == calls' # calls /\ calls'[1].op = "rehydrate"

\* a blob that is missing, or whose answeredQuestions is absent or not a list
MissingOrCorrupt(blob) ==
    ~blob.present \/ blob.state.answeredQuestions.kind # "Array"

\* C21: rehydrating from a missing blob, or from a blob whose
\* answeredQuestions is absent or not a list of ids, yields the initial
\* state: all counters 0, lastStudyDate null, dailyGoal 20, no answered id.
C21_CorruptBlobGivesInitialState ==
    [][(RehydrateCall /\ MissingOrCorrupt(storage)) => progress' = InitialState]_vars

\* a step that is a checkAndUpdateStreak call following another one made on
\* the same day
SecondCheckOfDay ==
    /\ calls'[1].op = "checkAndUpdateStreak" /\ calls'[2] = calls[1]
    /\ calls'[1].day = today /\ today' = today
    /\ calls[1].op = "checkAndUpdateStreak" /\ calls[1].day = today

\* C27: calling checkAndUpdateStreak twice with no date change between the
\* calls leaves currentStreak and longestStreak as one call leaves them.
C27_CheckStreakIdempotent ==
    [][SecondCheckOfDay =>
         /\ progress'.currentStreak = progress.currentStreak
         /\ progress'.longestStreak = progress.longestStreak]_vars

(***************************************************************************)
(* Search history: properties.                                             *)
(***************************************************************************)
NoDuplicate(s) == \A i, j \in 1..Len(s) : s[i] = s[j] => i = j

\* the i-th of the entries of s other than k
OtherEntry(s, k, i) ==
    s[CHOOSE j \in 1..Len(s) :
        s[j] # k /\ Cardinality({m \in 1..j : s[m] # k}) = i]

IsBlank(keyword) == \A i \in 1..Len(keyword) : keyword[i] \in {" ", "TAB", "U+3000"}

HistoryOk(h) == NoDuplicate(h) /\ Len(h) <= 20

\* C23: addSearch with a non-blank keyword makes it the first entry, removes
\* its earlier occurrence, keeps the other entries in their order and cuts
\* the list to 20; with a blank keyword it changes nothing; the history
\* never holds a duplicate nor more than 20 entries.
C23_AddSearch ==
    [][/\ HistoryOk(history) /\ HistoryOk(history')
       /\ UiCall("addSearch") =>
            LET keyword == lastCall'.args
                others == Cardinality({m \in 1..Len(history) : history[m] # keyword})
            IN IF IsBlank(keyword) THEN history' = history
               ELSE /\ history'[1] = keyword
                    /\ Len(history') = (IF others < 19 THEN others ELSE 19) + 1
                    /\ \A i \in 1..(Len(history') - 1) :
                          history'[i + 1] = OtherEntry(history, keyword, i)]_vars

\* a new keyword added to a full history: the oldest entry is gone
C23_Witness ==
    /\ lastCall.op = "addSearch" /\ lastCall.args = <<"u">>
    /\ Len(history) = 20
    /\ history[1] = <<"u">> /\ history[2] = <<"a">> /\ history[20] = <<"s">>
    /\ <<"t">> \notin Range(history)

(***************************************************************************)
(* Filter Engine: independence of the texts.                               *)
(***************************************************************************)
\* the questions with other question and choice texts
Retexted(questions, text, choice) ==
    [i \in 1..Len(questions) |->
        [questions[i] EXCEPT !.questionText = text, !.choices = <<choice>>]]

\* corpora that agree with AllQuestions on id, year, session and number:
\* without any text, and with the identifiers and years written in the texts
Retextings ==
    {Retexted(AllQuestions, <<>>, <<>>),
     Retexted(AllQuestions, <<"1", "1", "8", " ", "1", "1", "0", "b", "1">>,
                            <<"1", "0", "2", " ", "1", "1", "2", "B">>)}

IdsOf(questions) == [i \in 1..Len(questions) |-> questions[i].id]

\* C22: for a search text that is a complete or a partial identifier, the
\* selected ids are the same for every corpus that agrees on id, year,
\* session and number, whatever its question and choice texts.
C22_IdentifierIgnoresTexts ==
    (query.called /\ (CompleteForms(Trimmed) # {} \/ PartialOf(Trimmed).ok))
        => \A other \in Retextings :
              IdsOf(filterQuestions(other, query.searchText, query.selectedYears,
                                    query.sessions, query.hisshuOnly))
                = IdsOf(result)

\* "118" selects the two questions of year 118, although a corpus of
\* Retextings has it in every question text and AllQuestions in none
C22_Witness ==
    /\ query.called /\ Trimmed = <<"1", "1", "8">>
    /\ IdsOf(result) = << <<"1", "1", "8", "C", "2", "0">>, <<"1", "1", "8", "E", "1">> >>
    /\ \E other \in Retextings : \A i \in 1..Len(other) :
          StringIncludes(other[i].questionText, Trimmed)
    /\ \A i \in 1..Len(AllQuestions) :
          ~StringIncludes(AllQuestions[i].questionText, Trimmed)

(***************************************************************************)
(* Filter state: properties.                                               *)
(***************************************************************************)
StrictlyDescending(s) == \A i \in 1..(Len(s) - 1) : s[i] > s[i + 1]

\* C24: selectedYears is strictly descending after any toggleYear,
\* selectAllYears and clearAllYears, and a toggleYear(y) that follows a
\* toggleYear(y) restores the list held before the first of the two.
C24_SelectedYearsDescending ==
    [][/\ StrictlyDescending(filter.selectedYears)
       /\ StrictlyDescending(filter'.selectedYears)
       /\ (UiCall("toggleYear") /\ lastCall'.args.again)
             => filter'.selectedYears = lastCall.args.before]_vars

\* 110 taken out of <<118, 110, 102>> and put back between 118 and 102
C24_Witness ==
    /\ lastCall.op = "toggleYear" /\ lastCall.args.again
    /\ lastCall.args.year = 110 /\ lastCall.args.before = <<118, 102>>
    /\ filter.selectedYears = <<118, 110, 102>>

\* C26: after every useStore action, filteredQuestions is
\* filterQuestions(allQuestions, searchText, selectedYears, sessions) of the
\* current filter.
C26_FilteredQuestionsCurrent ==
    filteredQuestions
        = filterQuestions(AllQuestions, filter.searchText, filter.selectedYears,
                          filter.sessions, FALSE)

\* "x" in years 118 and 102 and session B, the session chosen last: 102B1
C26_Witness ==
    /\ lastCall.op = "toggleSession"
    /\ filter = [searchText |-> <<"x">>, selectedYears |-> <<118, 102>>,
                 sessions |-> <<"B">>]
    /\ IdsOf(filteredQuestions) = << <<"1", "0", "2", "B", "1">> >>

DistinctIds(s) == \A i, j \in 1..Len(s) : s[i].id = s[j].id => i = j

\* C29: after any createFolder calls, and likewise addTab calls, also two
\* made at the same millisecond, all folders and all custom tabs have
\* pairwise distinct ids.
C29_DistinctIds == DistinctIds(folders) /\ DistinctIds(tabs)

\* no id list of the collection stores holds an id twice
NoDuplicateIds ==
    /\ \A i \in 1..Len(folders) : NoDuplicate(folders[i].questionIds)
    /\ NoDuplicate(favoriteIds)
    /\ NoDuplicate(cardIds)

\* C28: each folder's questionIds, favoriteIds and cardIds hold every id at
\* most once, and addToFolder, addFavorite and addCard with an id that is
\* already in the list leave the list unchanged.
C28_NoDuplicateIds ==
    [][/\ NoDuplicateIds /\ NoDuplicateIds'
       /\ UiCall("addToFolder") =>
             \A i \in 1..Len(folders) :
                lastCall'.args.id \in Range(folders[i].questionIds)
                   => folders'[i] = folders[i]
       /\ (UiCall("addFavorite") /\ lastCall'.args.id \in Range(favoriteIds))
             => favoriteIds' = favoriteIds
       /\ (UiCall("addCard") /\ lastCall'.args.id \in Range(cardIds))
             => cardIds' = cardIds]_vars

\* addToFolder of an id the bookmark folder already held, with both ids in
\* the favorites and the cards
C28_Witness ==
    /\ lastCall.op = "addToFolder" /\ lastCall.args.had
    /\ lastCall.args.folderId = <<"bookmark">> /\ lastCall.args.id = "118A1"
    /\ folders[1].questionIds = <<"112B48", "118A1">>
    /\ Len(folders) = 3 /\ folders[2].id = folders[3].id
    /\ folders[2].questionIds = <<"118A1">> /\ folders[3].questionIds = <<"118A1">>
    /\ favoriteIds = <<"118A1", "112B48">>
    /\ cardIds = <<"112B48", "118A1">>

(***************************************************************************)
(* Answer views: properties.                                               *)
(***************************************************************************)
\* the letters a-e that occur in the answer, in either case
LettersOf(answer) ==
    {pair[1] : pair \in {p \in {<<"a", "A">>, <<"b", "B">>, <<"c", "C">>,
                                <<"d", "D">>, <<"e", "E">>} :
                            \E i \in 1..Len(answer) : answer[i] \in {p[1], p[2]}}}

\* C30: a submission in the question detail view or in study mode calls
\* recordAnswer once, with isCorrect true iff the selected keys are exactly
\* the letters a-e of the question's answer; with no selected choice, or for
\* a question already marked answered in the view, it calls it zero times.
C30_SubmitRecordsAnswer ==
    [][(UiCall("handleSubmitAnswer") \/ UiCall("handleSubmit")) =>
         LET submitted == lastCall'.args
         IN IF submitted.selected = {} \/ submitted.answered \/ submitted.question = 0
            THEN calls' = calls /\ progress' = progress
            ELSE /\ calls'[1].op = "recordAnswer" /\ calls'[2] = calls[1]
                 /\ progress'.totalAnswered = progress.totalAnswered + 1
                 /\ calls'[1].id = ViewQuestions[submitted.question].id
                 /\ calls'[1].isCorrect
                      <=> submitted.selected
                            = LettersOf(ViewQuestions[submitted.question].answer)]_vars

\* a and c submitted for the answer "CA" in the detail view, after a wrong
\* submission for another question
C30_Witness ==
    /\ lastCall.op = "handleSubmitAnswer"
    /\ lastCall.args.question = 2 /\ lastCall.args.selected = {"a", "c"}
    /\ ~lastCall.args.answered
    /\ calls[1].op = "recordAnswer" /\ calls[1].id = "112B48" /\ calls[1].isCorrect
    /\ calls[2].op = "recordAnswer" /\ ~calls[2].isCorrect
    /\ detail.hasAnswered /\ detail.selectedChoices = {}
    /\ progress.totalAnswered = 2 /\ progress.totalCorrect = 1

====
